---- MODULE Spec2Model ----
(***************************************************************************)
(* A model of kirapo-descrambler (src/src/main.rs): the manifest parser    *)
(* parse_json, the tile compositor descramble, and the fetch / descramble  *)
(* / save pipeline of main.                                                *)
(*                                                                         *)
(* Three specifications share the module:                                  *)
(*   DescrambleSpec  descramble applied to bounded images and manifests    *)
(*   ParseSpec       parse_json applied to bounded JSON documents          *)
(*   MainSpec        main's loop against a nondeterministic server         *)
(* A specification keeps the variables of the other two at their idle      *)
(* values.                                                                 *)
(***************************************************************************)
EXTENDS Integers, Sequences, FiniteSets

VARIABLES
    dpc,      \* descramble: "call" before the call, "done" after it returned
    img,      \* descramble: the decoded source image (argument img)
    views,    \* descramble: the geometry descriptor (argument views)
    orig,     \* descramble: the returned buffer
    ppc,      \* parse_json: "call" before the call, "done" after it
    json_str, \* parse_json: the manifest document (argument json_str)
    parsed,   \* parse_json: its outcome (Ok, Err or a panic)
    mpc,      \* main: where the process is
    i,        \* main: the page number of the download loop
    imgs,     \* main: Vec<DynamicImage>, the decoded pages
    viewsVec, \* main: Vec<Views> (the source's views), the parsed manifests
    descrambled_imgs, \* main: Vec<RgbaImage>
    files,    \* the output directory: files[k] is the content of k.png
    log       \* every request sent so far and the server's answer to it

dvars == <<dpc, img, views, orig>>

pvars == <<ppc, json_str, parsed>>

mvars == <<mpc, i, imgs, viewsVec, descrambled_imgs, files, log>>

vars == <<dpc, img, views, orig, ppc, json_str, parsed,
          mpc, i, imgs, viewsVec, descrambled_imgs, files, log>>

\* The values of a component's variables in a behaviour of another component.
DescrambleIdle ==
    /\ dpc = "idle"
    /\ img = [width |-> 0, height |-> 0, px |-> << >>]
    /\ views = [width |-> 0, height |-> 0, coords |-> << >>]
    /\ orig = [width |-> 0, height |-> 0, px |-> << >>]

ParseIdle ==
    /\ ppc = "idle"
    /\ json_str = [valid |-> FALSE]
    /\ parsed = [kind |-> "None"]

MainIdle ==
    /\ mpc = "idle"
    /\ i = 0
    /\ imgs = << >>
    /\ viewsVec = << >>
    /\ descrambled_imgs = << >>
    /\ files = << >>
    /\ log = << >>

(***************************************************************************)
(* Bounds of the compositor's inputs.                                      *)
(***************************************************************************)
MaxImgW == 2
MaxImgH == 2
MaxX == 2
MaxY == 1
MaxPlacements == 2

Min(a, b) == IF a < b THEN a ELSE b

(***************************************************************************)
(* Images.  A pixel is an Rgba<u8> value, written as a number; 0 is the    *)
(* all-zero (fully transparent) pixel.  An image is its dimensions and its *)
(* pixels, px[<<x, y>>] for 0 <= x < width, 0 <= y < height.  Coordinates  *)
(* stay far below 2^32: the sums of copy_from's bounds test do not wrap.   *)
(***************************************************************************)
Rect(x, y, w, h) == (x .. (x + w - 1)) \X (y .. (y + h - 1))

ZeroPixel == 0

\* ImageBuffer::new(width, height): a zeroed buffer.
ImageBuffer_new(width, height) ==
    [width |-> width, height |-> height,
     px |-> [p \in Rect(0, 0, width, height) |-> ZeroPixel]]

\* crop_imm that cuts at the image's origin.
crop_imm_origin(image, x, y, width, height) ==
    LET ch == Min(height, image.height)
        cw == Min(width, image.width)
    IN  [width |-> cw, height |-> ch,
         px |-> [p \in Rect(0, 0, cw, ch) |-> image.px[<<p[1], p[2]>>]]]

\* imageops::crop_dimms as called by DynamicImage::crop_imm: the requested
\* rectangle is clamped to the image, and the cut-out is copied.
crop_imm(image, x, y, width, height) ==
    LET cx == Min(x, image.width)
        cy == Min(y, image.height)
        ch == Min(height, image.height - cy)
        cw == Min(width, image.width - cx)
    IN  [width |-> cw, height |-> ch,
         px |-> [p \in Rect(0, 0, cw, ch) |-> image.px[<<cx + p[1], cy + p[2]>>]]]

\* copy_from that puts the pixels at (y, x).
copy_from_transposed(self, other, x, y) ==
    IF self.width < other.width + x \/ self.height < other.height + y
    THEN [ok |-> FALSE, buf |-> self]
    ELSE [ok |-> TRUE,
          buf |-> [self EXCEPT !.px =
                     [p \in DOMAIN self.px |->
                        IF p \in Rect(y, x, other.width, other.height)
                        THEN other.px[<<p[1] - y, p[2] - x>>]
                        ELSE self.px[p]]]]

\* GenericImage::copy_from: Err (and no pixel written) when other does not fit
\* into self at (x, y), else every pixel of other is put at its place.
copy_from(self, other, x, y) ==
    IF self.width < other.width + x \/ self.height < other.height + y
    THEN [ok |-> FALSE, buf |-> self]
    ELSE [ok |-> TRUE,
          buf |-> [self EXCEPT !.px =
                     [p \in DOMAIN self.px |->
                        IF p \in Rect(x, y, other.width, other.height)
                        THEN other.px[<<p[1] - x, p[2] - y>>]
                        ELSE self.px[p]]]]

\* One iteration of descramble's loop: the Result of copy_from is dropped.
DescrambleTile(buf, image, c) ==
    LET tile == crop_imm(image, c[1], c[2], c[3], c[4])
    IN  copy_from(buf, tile, c[5], c[6]).buf

\* The loop with the placements applied last to first.
RECURSIVE DescrambleLoop_reversed(_, _, _)
DescrambleLoop_reversed(buf, image, coords) ==
    IF coords = << >> THEN buf
    ELSE DescrambleTile(DescrambleLoop_reversed(buf, image, Tail(coords)),
                        image, Head(coords))

RECURSIVE DescrambleLoop(_, _, _)
DescrambleLoop(buf, image, coords) ==
    IF coords = << >> THEN buf
    ELSE DescrambleLoop(DescrambleTile(buf, image, Head(coords)), image, Tail(coords))

\* fn descramble(img, views) -> RgbaImage
descramble(image, v) ==
    DescrambleLoop(ImageBuffer_new(v.width, v.height), image, v.coords)

(***************************************************************************)
(* parse_json.  A string is a sequence of characters; a JSON value is a    *)
(* record tagged by t.  A JSON unsigned integer v is written               *)
(* [t |-> "u64", hi |-> h, lo |-> l] with v = h * 2^32 + l, 0 <= l < 2^32, *)
(* so that `v as u32` is l.                                                *)
(***************************************************************************)
Ok(v) == [kind |-> "Ok", val |-> v]

Err(m) == [kind |-> "Err", msg |-> m]

Panic(m) == [kind |-> "Panic", msg |-> m]

ErrSerde == "serde_json::Error"
ErrNoViews == "No views field in the json"
ErrWidth == "Failed to parse width from json"
ErrHeight == "Failed to parse height from json"
ErrCoords == "Failed to parse coords from json"
ErrEntryNotString == "Failed to convert a coords entry into a String"
ErrPrefix == "Failed to strip the 'i:' prefix"
ErrSrcDst == "Failed to split the src and dst parts"
ErrSrcSize == "Failed to split the src and size parts"
ErrIntEmpty == "cannot parse integer from empty string"
ErrIntInvalidDigit == "invalid digit found in string"
ErrIntPosOverflow == "number too large to fit in target type"
PanicNoEntry == "no entry found for key"
PanicIndex == "index out of bounds"

\* The first index of character c in s, 0 when there is none.
RECURSIVE Find(_, _, _)
Find(s, c, from) ==
    IF from > Len(s) THEN 0
    ELSE IF s[from] = c THEN from
    ELSE Find(s, c, from + 1)

\* strip_prefix that lets a string without the prefix through.
strip_prefix_lenient(s, prefix) ==
    IF Len(s) >= Len(prefix) /\ SubSeq(s, 1, Len(prefix)) = prefix
    THEN [some |-> TRUE, rest |-> SubSeq(s, Len(prefix) + 1, Len(s))]
    ELSE [some |-> TRUE, rest |-> s]

\* str::strip_prefix
strip_prefix(s, prefix) ==
    IF Len(s) >= Len(prefix) /\ SubSeq(s, 1, Len(prefix)) = prefix
    THEN [some |-> TRUE, rest |-> SubSeq(s, Len(prefix) + 1, Len(s))]
    ELSE [some |-> FALSE, rest |-> << >>]

\* str::split_once: around the first c.
split_once(s, c) ==
    LET at == Find(s, c, 1)
    IN  IF at = 0
        THEN [some |-> FALSE, left |-> << >>, right |-> << >>]
        ELSE [some |-> TRUE, left |-> SubSeq(s, 1, at - 1),
              right |-> SubSeq(s, at + 1, Len(s))]

\* str::split(c).collect(): at least one piece, the empty string included.
RECURSIVE split(_, _)
split(s, c) ==
    LET at == Find(s, c, 1)
    IN  IF at = 0 THEN <<s>>
        ELSE <<SubSeq(s, 1, at - 1)>> \o split(SubSeq(s, at + 1, Len(s)), c)

DigitChars == <<"0", "1", "2", "3", "4", "5", "6", "7", "8", "9">>

IsDigit(c) == \E d \in 1..10 : DigitChars[d] = c

DigitVal(c) == (CHOOSE d \in 1..10 : DigitChars[d] = c) - 1

\* u32::MAX = 4294967295, digit by digit.
U32MaxDigits == <<4, 2, 9, 4, 9, 6, 7, 2, 9, 5>>

RECURSIVE StripZeros(_)
StripZeros(ds) ==
    IF Len(ds) > 1 /\ ds[1] = 0 THEN StripZeros(Tail(ds)) ELSE ds

\* ds > U32MaxDigits as numbers (ds without leading zeros).
RECURSIVE DigitsGreater(_, _)
DigitsGreater(ds, ms) ==
    IF Len(ds) # Len(ms) THEN Len(ds) > Len(ms)
    ELSE IF ds = << >> THEN FALSE
    ELSE IF ds[1] # ms[1] THEN ds[1] > ms[1]
    ELSE DigitsGreater(Tail(ds), Tail(ms))

RECURSIVE Accumulate(_, _)
Accumulate(ds, acc) ==
    IF ds = << >> THEN acc ELSE Accumulate(Tail(ds), acc * 10 + ds[1])

\* str::parse::<u32>: an optional '+', then decimal digits that fit 32 bits.
parse_u32(tok) ==
    IF tok = << >> THEN Err(ErrIntEmpty)
    ELSE LET digits == IF tok[1] = "+" THEN Tail(tok) ELSE tok
         IN  IF digits = << >> \/ \E at \in 1..Len(digits) : ~IsDigit(digits[at])
             THEN Err(ErrIntInvalidDigit)
             ELSE LET ds == StripZeros([at \in 1..Len(digits) |-> DigitVal(digits[at])])
                  IN  IF DigitsGreater(ds, U32MaxDigits)
                      THEN Err(ErrIntPosOverflow)
                      ELSE Ok(Accumulate(ds, 0))

\* v[i] of a Vec<&str>, followed by parse::<u32>()?.
IndexParse(v, at) ==
    IF at > Len(v) THEN Panic(PanicIndex) ELSE parse_u32(v[at])

\* The first of the six results that is not Ok, else the tuple.
RECURSIVE FirstFailure(_, _)
FirstFailure(rs, acc) ==
    IF rs = << >> THEN Ok(acc)
    ELSE IF Head(rs).kind # "Ok" THEN Head(rs)
    ELSE FirstFailure(Tail(rs), Append(acc, Head(rs).val))

\* The numeric part of one loop iteration: three Vecs, six indexed parses in
\* the order src_x, src_y, w, h, dst_x, dst_y.
ParseNumbers(src_pos_s, size_s, dst_part) ==
    LET src_pos == split(src_pos_s, ",")
        size == split(size_s, ",")
        dst_pos == split(dst_part, ",")
    IN  FirstFailure(<<IndexParse(src_pos, 1), IndexParse(src_pos, 2),
                       IndexParse(size, 1), IndexParse(size, 2),
                       IndexParse(dst_pos, 1), IndexParse(dst_pos, 2)>>, << >>)

\* One iteration of parse_json's loop over coords_value.
ParseEntry(coords_str) ==
    IF coords_str.t # "str" THEN Err(ErrEntryNotString)
    ELSE LET s == strip_prefix(coords_str.s, <<"i", ":">>)
         IN  IF ~s.some THEN Err(ErrPrefix)
             ELSE LET sd == split_once(s.rest, ">")
                  IN  IF ~sd.some THEN Err(ErrSrcDst)
                      ELSE LET ps == split_once(sd.left, "+")
                           IN  IF ~ps.some THEN Err(ErrSrcSize)
                               ELSE ParseNumbers(ps.left, ps.right, sd.right)

\* The loop with each placement put in front of the earlier ones.
RECURSIVE ParseLoop_prepend(_, _)
ParseLoop_prepend(entries, coords) ==
    IF entries = << >> THEN Ok(coords)
    ELSE LET r == ParseEntry(Head(entries))
         IN  IF r.kind # "Ok" THEN r
             ELSE ParseLoop_prepend(Tail(entries), <<r.val>> \o coords)

\* The loop: the first entry that fails ends parse_json; else push and go on.
RECURSIVE ParseLoop(_, _)
ParseLoop(entries, coords) ==
    IF entries = << >> THEN Ok(coords)
    ELSE LET r == ParseEntry(Head(entries))
         IN  IF r.kind # "Ok" THEN r
             ELSE ParseLoop(Tail(entries), Append(coords, r.val))

\* Value::as_u64 followed by `as u32`.
AsU64AsU32(field, msg) ==
    IF field.t = "u64" THEN Ok(field.lo) ELSE Err(msg)

\* Map's Index panics on a key that is not there.
MapIndex(obj, key) ==
    IF obj[key].t = "absent" THEN Panic(PanicNoEntry) ELSE Ok(obj[key])

\* fn parse_json(json_str) -> Result<Views, Box<dyn Error>>
parse_json(doc) ==
    IF ~doc.valid THEN Err(ErrSerde)
    ELSE IF doc.views.t # "array" \/ doc.views.elems = << >> THEN Err(ErrNoViews)
    ELSE IF doc.views.elems[1].t # "object" THEN Err(ErrNoViews)
    ELSE
      LET views_json == doc.views.elems[1]
          wf == MapIndex(views_json, "width")
          w == IF wf.kind = "Ok" THEN AsU64AsU32(wf.val, ErrWidth) ELSE wf
          hf == MapIndex(views_json, "height")
          h == IF hf.kind = "Ok" THEN AsU64AsU32(hf.val, ErrHeight) ELSE hf
          cf == MapIndex(views_json, "coords")
      IN  IF w.kind # "Ok" THEN w
          ELSE IF h.kind # "Ok" THEN h
          ELSE IF cf.kind # "Ok" THEN cf
          ELSE IF cf.val.t # "array" THEN Err(ErrCoords)
          ELSE LET cs == ParseLoop(cf.val.elems, << >>)
               IN  IF cs.kind # "Ok" THEN cs
                   ELSE Ok([width |-> w.val, height |-> h.val, coords |-> cs.val])

(***************************************************************************)
(* The compositor's inputs.                                                *)
(***************************************************************************)
\* A decoded image whose pixels are pairwise distinct and not zero (pattern 1)
\* or a checkerboard with zero pixels (pattern 2).
MkImage(w, h, pattern) ==
    [width |-> w, height |-> h,
     px |-> [p \in Rect(0, 0, w, h) |->
               IF pattern = 1 THEN 1 + p[1] + w * p[2] ELSE (p[1] + p[2]) % 2]]

Images == {MkImage(w, MaxImgH, 1) : w \in (MaxImgW - 1)..MaxImgW}
            \cup {MkImage(MaxImgW, MaxImgH, 2)}

\* CoordsTuple = (src_x, src_y, w, h, dst_x, dst_y)
CoordsTuples ==
    (0..MaxX) \X (0..MaxY) \X (0..MaxX) \X (1..(MaxY + 1)) \X (0..MaxX) \X (0..MaxY)

RECURSIVE SeqsUpTo(_, _)
SeqsUpTo(S, n) ==
    IF n = 0 THEN {<< >>}
    ELSE LET shorter == SeqsUpTo(S, n - 1)
         IN  shorter \cup {Append(s, e) : s \in {t \in shorter : Len(t) = n - 1}, e \in S}

\* The descriptors of at most n placements.
ViewsSet(n) ==
    [width : 1..MaxImgW, height : 1..MaxImgH,
     coords : UNION {[1..m -> CoordsTuples] : m \in 0..n}]

DescrambleInit ==
    /\ dpc = "call"
    /\ img \in Images
    /\ views \in ViewsSet(MaxPlacements)
    /\ orig = ImageBuffer_new(0, 0)
    /\ ParseIdle
    /\ MainIdle

\* main.rs:158  let orig = descramble(img, view);
DescrambleCall ==
    /\ dpc = "call"
    /\ orig' = descramble(img, views)
    /\ dpc' = "done"
    /\ UNCHANGED <<img, views>>
    /\ UNCHANGED <<pvars, mvars>>

DescrambleNext == DescrambleCall

DescrambleSpec == DescrambleInit /\ [][DescrambleNext]_vars

(***************************************************************************)
(* The parser's inputs.                                                    *)
(***************************************************************************)
MaxHi == 1
MaxLo == 2
MaxEntries == 2

Absent == [t |-> "absent"]

\* A JSON value of a type the parser does not ask for there (null, a float,
\* a negative number, an object, ...).
Other == [t |-> "other"]

Str(s) == [t |-> "str", s |-> s]

U64(hi, lo) == [t |-> "u64", hi |-> hi, lo |-> lo]

Array(elems) == [t |-> "array", elems |-> elems]

Object(w, h, c) == [t |-> "object", width |-> w, height |-> h, coords |-> c]

Doc(v) == [valid |-> TRUE, views |-> v]

RECURSIVE Join(_, _)
Join(toks, sep) ==
    IF toks = << >> THEN << >>
    ELSE IF Len(toks) = 1 THEN toks[1]
    ELSE toks[1] \o <<sep>> \o Join(Tail(toks), sep)

\* A coords entry put together from its pieces, each of which may be missing
\* or malformed.
Render(pre, src, plus, size, gt, dst) ==
    pre \o Join(src, ",") \o plus \o Join(size, ",") \o gt \o Join(dst, ",")

GoodParts ==
    { <<<<"0">>, <<"2">>>>, <<<<"2">>, <<"0">>>>,
      <<<<"1", "0">>, <<"0", "1">>>>, <<<<"+", "1">>, <<"1">>>> }

BadParts ==
    { << <<"1">> >>, << <<"x">> >>, << << >> >>,
      <<<<"x">>, <<"1">>>>, <<<<"1">>, <<"x">>>>, <<<<"1">>, << >>>>,
      <<<<"1">>, <<"4", "2", "9", "4", "9", "6", "7", "2", "9", "6">>>>,
      <<<<"0">>, <<"0", "+", "1">>>>, <<<<"0">>, <<"0", ">", "1">>>>,
      <<<<"1">>, <<"0">>, <<"2">>>>, <<<<"1">>, <<"0">>, <<"x">>>> }

Parts == GoodParts \cup BadParts

Prefixes == { <<"i", ":">>, << >> }

Marker(c) == { <<c>>, << >> }

\* Every entry made of the given parts, with and without each marker.
EntryStrings(parts) ==
    { Render(pre, src, plus, size, gt, dst) :
        pre \in Prefixes, src \in parts, plus \in Marker("+"),
        size \in parts, gt \in Marker(">"), dst \in parts }

\* Entries with at most one piece that is not the plain one, for the
\* manifests of several entries.
PlainPart == <<<<"0">>, <<"2">>>>

RepParts == { PlainPart, <<<<"2">>, <<"0">>>>, << <<"1">> >>, <<<<"x">>, <<"1">>>> }

Deviations(pre, src, plus, size, gt, dst) ==
    (IF pre = << >> THEN 1 ELSE 0) + (IF plus = << >> THEN 1 ELSE 0)
    + (IF gt = << >> THEN 1 ELSE 0) + (IF src # PlainPart THEN 1 ELSE 0)
    + (IF size # PlainPart THEN 1 ELSE 0) + (IF dst # PlainPart THEN 1 ELSE 0)

RepEntries ==
    { Str(Render(pre, src, plus, size, gt, dst)) :
        <<pre, src, plus, size, gt, dst>> \in
          { q \in Prefixes \X RepParts \X Marker("+") \X RepParts \X Marker(">") \X RepParts :
              Deviations(q[1], q[2], q[3], q[4], q[5], q[6]) <= 1 } }
      \cup {Other}

Numbers == {Absent, Other} \cup {U64(hi, lo) : hi \in 0..MaxHi, lo \in 0..MaxLo}

PlainEntry == Str(Render(<<"i", ":">>, PlainPart, <<"+">>, PlainPart, <<">">>, PlainPart))

\* Documents that differ above the coords entries.
TopDocs ==
    { [valid |-> FALSE], Doc(Absent), Doc(Other), Doc(Array(<< >>)), Doc(Array(<<Other>>)) }
      \cup { Doc(Array(<<Object(w, h, c)>>)) :
               w \in Numbers, h \in Numbers,
               c \in {Absent, Other, Array(<< >>), Array(<<PlainEntry>>)} }

\* Documents that differ in their coords entries: at most n of them.
EntryDocs(n) ==
    { Doc(Array(<<Object(U64(0, 2), U64(0, 1), Array(es))>>)) :
        es \in SeqsUpTo(RepEntries, n) \cup {<<Str(e)>> : e \in EntryStrings(Parts)} }

Docs(n) == TopDocs \cup EntryDocs(n)

ParseInit ==
    /\ ppc = "call"
    /\ json_str \in Docs(MaxEntries)
    /\ parsed = [kind |-> "None"]
    /\ DescrambleIdle
    /\ MainIdle

\* main.rs:150  parse_json(&json_str)
ParseCall ==
    /\ ppc = "call"
    /\ parsed' = parse_json(json_str)
    /\ ppc' = "done"
    /\ UNCHANGED json_str
    /\ UNCHANGED <<dvars, mvars>>

ParseNext == ParseCall

ParseSpec == ParseInit /\ [][ParseNext]_vars

(***************************************************************************)
(* main: download pages until an image request is answered 404, descramble *)
(* them, save them.  The server and the file system answer as they like.   *)
(***************************************************************************)
MaxPages == 2

\* A coords entry in the format, of one-digit numbers.
Digit(n) == <<DigitChars[n + 1]>>

Entry(sx, sy, w, h, dx, dy) ==
    Str(Render(<<"i", ":">>, <<Digit(sx), Digit(sy)>>, <<"+">>,
               <<Digit(w), Digit(h)>>, <<">">>, <<Digit(dx), Digit(dy)>>))

Manifest(w, h, entries) == Doc(Array(<<Object(U64(0, w), U64(0, h), Array(entries))>>))

\* Bodies of image responses: what load_from_memory decodes them to.
ServedImages == {MkImage(2, 1, 1), MkImage(2, 1, 2)}

\* Bodies of manifest responses: two tiles swapped, one tile in place, an entry
\* without its prefix, an entry without src_y, and text that is no JSON.
ServedManifests ==
    { Manifest(2, 1, <<Entry(0, 0, 1, 1, 1, 0), Entry(1, 0, 1, 1, 0, 0)>>),
      Manifest(2, 1, <<Entry(0, 0, 2, 1, 0, 0)>>),
      Manifest(2, 1, <<Str(Render(<< >>, PlainPart, <<"+">>, PlainPart, <<">">>, PlainPart))>>),
      Manifest(2, 1, <<Str(Render(<<"i", ":">>, << <<"1">> >>, <<"+">>, PlainPart, <<">">>, PlainPart))>>),
      [valid |-> FALSE] }

\* The server's answers to client.get(&img_url).send() and what follows it:
\* no response, a status, or a 200 whose body cannot be read or decoded.
ImageAnswers ==
    { [kind |-> "send_err"], [kind |-> "status", status |-> 404],
      [kind |-> "status", status |-> 500], [kind |-> "bytes_err"],
      [kind |-> "decode_err"] }
      \cup { [kind |-> "image", body |-> b] : b \in ServedImages }

\* The answers to client.get(&json_url).send() and text(): no response, a
\* body that cannot be read, or a response with a status and a body.
JsonAnswers ==
    { [kind |-> "send_err"], [kind |-> "text_err"] }
      \cup { [kind |-> "text", status |-> st, body |-> b] :
                st \in {200, 404, 500}, b \in ServedManifests }

Request(what, page, answer) == [what |-> what, page |-> page, answer |-> answer]

MainInit ==
    /\ mpc = "fetch_img"
    /\ i = 1
    /\ imgs = << >>
    /\ viewsVec = << >>
    /\ descrambled_imgs = << >>
    /\ files = << >>
    /\ log = << >>
    /\ DescrambleIdle
    /\ ParseIdle

\* main.rs:117-140: request page i's image; 404 ends the loop, any other
\* failure ends the process, a decoded image is pushed.
FetchImage ==
    /\ mpc = "fetch_img"
    /\ \E a \in ImageAnswers :
        /\ i > MaxPages => a.kind # "image"
        /\ log' = Append(log, Request("jpg", i, a))
        /\ IF a.kind = "image"
           THEN /\ imgs' = Append(imgs, a.body)
                /\ mpc' = "fetch_json"
           ELSE /\ imgs' = imgs
                /\ mpc' = IF a.kind = "status" /\ a.status = 404
                          THEN "descramble" ELSE "exited"
    /\ UNCHANGED <<i, viewsVec, descrambled_imgs, files>>
    /\ UNCHANGED <<dvars, pvars>>

\* FetchJson with a failed manifest skipped instead of unwrapped.
FetchJson_Skip ==
    /\ mpc = "fetch_json"
    /\ \E a \in JsonAnswers :
        /\ log' = Append(log, Request("json", i, a))
        /\ viewsVec' = IF a.kind = "text" /\ parse_json(a.body).kind = "Ok"
                       THEN Append(viewsVec, parse_json(a.body).val)
                       ELSE viewsVec
        /\ i' = i + 1
        /\ mpc' = "fetch_img"
    /\ UNCHANGED <<imgs, descrambled_imgs, files>>
    /\ UNCHANGED <<dvars, pvars>>

\* main.rs:143-151: request page i's manifest, parse its body whatever the
\* status, unwrap and push.
FetchJson ==
    /\ mpc = "fetch_json"
    /\ \E a \in JsonAnswers :
        /\ log' = Append(log, Request("json", i, a))
        /\ IF a.kind = "text" /\ parse_json(a.body).kind = "Ok"
           THEN /\ viewsVec' = Append(viewsVec, parse_json(a.body).val)
                /\ i' = i + 1
                /\ mpc' = "fetch_img"
           ELSE /\ viewsVec' = viewsVec
                /\ i' = i
                /\ mpc' = "exited"
    /\ UNCHANGED <<imgs, descrambled_imgs, files>>
    /\ UNCHANGED <<dvars, pvars>>

\* imgs.iter().zip(views.iter()) mapped through descramble.
ZipDescramble(is, vs) ==
    [k \in 1..Min(Len(is), Len(vs)) |-> descramble(is[k], vs[k])]

\* main.rs:156-160
DescrambleAll ==
    /\ mpc = "descramble"
    /\ descrambled_imgs' = ZipDescramble(imgs, viewsVec)
    /\ mpc' = "mkdir"
    /\ UNCHANGED <<i, imgs, viewsVec, files, log>>
    /\ UNCHANGED <<dvars, pvars>>

\* main.rs:164-165: create_dir(..).unwrap() makes the directory or panics.
CreateDir ==
    /\ mpc = "mkdir"
    /\ \E made \in BOOLEAN : mpc' = IF made THEN "save" ELSE "exited"
    /\ UNCHANGED <<i, imgs, viewsVec, descrambled_imgs, files, log>>
    /\ UNCHANGED <<dvars, pvars>>

\* main.rs:167-172: the next image is written to <k>.png, or save panics.
SaveImage ==
    /\ mpc = "save"
    /\ Len(files) < Len(descrambled_imgs)
    /\ \E written \in BOOLEAN :
        IF written
        THEN /\ files' = Append(files, descrambled_imgs[Len(files) + 1])
             /\ mpc' = mpc
        ELSE /\ files' = files
             /\ mpc' = "exited"
    /\ UNCHANGED <<i, imgs, viewsVec, descrambled_imgs, log>>
    /\ UNCHANGED <<dvars, pvars>>

\* main.rs:174
Finish ==
    /\ mpc = "save"
    /\ Len(files) = Len(descrambled_imgs)
    /\ mpc' = "done"
    /\ UNCHANGED <<i, imgs, viewsVec, descrambled_imgs, files, log>>
    /\ UNCHANGED <<dvars, pvars>>

MainNext ==
    \/ FetchImage
    \/ FetchJson
    \/ DescrambleAll
    \/ CreateDir
    \/ SaveImage
    \/ Finish

MainSpec == MainInit /\ [][MainNext]_vars

(***************************************************************************)
(* The three components together: a behaviour is one of a component.       *)
(***************************************************************************)
Init == DescrambleInit \/ ParseInit \/ MainInit

Next == DescrambleNext \/ ParseNext \/ MainNext

Spec == Init /\ [][Next]_vars

(***************************************************************************)
(* Geometry of a placement c = (src_x, src_y, w, h, dst_x, dst_y).         *)
(***************************************************************************)
SrcInside(c, image) == c[1] + c[3] <= image.width /\ c[2] + c[4] <= image.height

DstInside(c, v) == c[5] + c[3] <= v.width /\ c[6] + c[4] <= v.height

DstRect(c) == Rect(c[5], c[6], c[3], c[4])

Canvas == Rect(0, 0, views.width, views.height)

Placed == 1..Len(views.coords)

\* The placements whose destination rectangle holds pixel p.
Covering(p) == {k \in Placed : p \in DstRect(views.coords[k])}

Last(S) == CHOOSE k \in S : \A j \in S : j <= k

\* The source pixel that placement c maps onto output pixel p.
Mapped(c, p) == img.px[<<p[1] - c[5] + c[1], p[2] - c[6] + c[2]>>]

NonEmpty(c) == c[3] > 0 /\ c[4] > 0

\* C1: a placement whose source rectangle is not fully inside the source
\* image makes descramble fail with a bounds error: no buffer is returned.
\* Stated for a non-empty tile whose destination is inside the canvas.
C1_SourceBoundsError ==
    (\E k \in Placed : /\ NonEmpty(views.coords[k])
                        /\ DstInside(views.coords[k], views)
                        /\ ~SrcInside(views.coords[k], img))
    => dpc # "done"

\* C2: a placement whose destination rectangle reaches outside the canvas is
\* rejected and compositing is aborted: no buffer is returned.
\* Stated for a non-empty tile whose source is inside the image.
C2_DestBoundsError ==
    (\E k \in Placed : /\ NonEmpty(views.coords[k])
                        /\ SrcInside(views.coords[k], img)
                        /\ ~DstInside(views.coords[k], views))
    => dpc # "done"

\* The placements' destination rectangles tile the canvas exactly.
ExactTiling ==
    /\ \A k \in Placed : DstInside(views.coords[k], views)
    /\ \A p \in Canvas : Cardinality(Covering(p)) = 1

IdentityManifest ==
    /\ views.width = img.width /\ views.height = img.height
    /\ \A k \in Placed : views.coords[k][5] = views.coords[k][1]
                          /\ views.coords[k][6] = views.coords[k][2]
    /\ ExactTiling

\* C5: with a canvas of the source's size and placements that have
\* dest = source position and tile the canvas exactly, the output is
\* pixel-for-pixel the source image.
C5_RoundTripIdentity ==
    (dpc = "done" /\ IdentityManifest) => orig = img

\* Two tiles side by side rebuild the source.
C5_Witness ==
    /\ dpc = "done" /\ IdentityManifest /\ Len(views.coords) = 2
    /\ views.coords[1][3] > 0 /\ views.coords[2][3] > 0
    /\ views.coords[1][1] # views.coords[2][1]
    /\ orig = img

\* C6: an output pixel whose covering placements are all in bounds holds the
\* source pixel mapped by the latest of them in manifest order.
C6_LastWriteWins ==
    dpc = "done" =>
        \A p \in Canvas :
            (/\ Covering(p) # {}
             /\ \A k \in Covering(p) : /\ SrcInside(views.coords[k], img)
                                       /\ DstInside(views.coords[k], views))
            => orig.px[p] = Mapped(views.coords[Last(Covering(p))], p)

\* Two placements with one destination rectangle and different source
\* rectangles, whose source pixels differ.
C6_Witness ==
    /\ dpc = "done" /\ Len(views.coords) = 2
    /\ \A k \in Placed : /\ SrcInside(views.coords[k], img)
                          /\ DstInside(views.coords[k], views)
    /\ DstRect(views.coords[1]) = DstRect(views.coords[2])
    /\ \E p \in Canvas :
          /\ Covering(p) = {1, 2}
          /\ Mapped(views.coords[1], p) # Mapped(views.coords[2], p)
          /\ orig.px[p] = Mapped(views.coords[2], p)

\* C7: the returned buffer has exactly canvas_width x canvas_height pixels,
\* and a pixel in no placement's destination rectangle is still zero.
C7_DimensionsAndGaps ==
    dpc = "done" =>
        /\ orig.width = views.width /\ orig.height = views.height
        /\ DOMAIN orig.px = Canvas
        /\ \A p \in Canvas : Covering(p) = {} => orig.px[p] = ZeroPixel

\* A canvas with a written, non-zero pixel and a gap.
C7_Witness ==
    /\ dpc = "done"
    /\ \E p \in Canvas : Covering(p) # {} /\ orig.px[p] # ZeroPixel
    /\ \E p \in Canvas : Covering(p) = {} /\ orig.px[p] = ZeroPixel

(***************************************************************************)
(* The coords entry format, read off the string itself:                    *)
(*     i:<src_x>,<src_y>+<w>,<h>><dst_x>,<dst_y>                           *)
(***************************************************************************)
Positions(s, c) == {at \in 1..Len(s) : s[at] = c}

FirstPos(s, c) == CHOOSE at \in Positions(s, c) : \A j \in Positions(s, c) : at <= j

HasPrefix(s) == Len(s) >= 2 /\ s[1] = "i" /\ s[2] = ":"

Rest(s) == SubSeq(s, 3, Len(s))

HasGt(s) == Positions(Rest(s), ">") # {}

LeftOfGt(s) == SubSeq(Rest(s), 1, FirstPos(Rest(s), ">") - 1)

DstOf(s) == SubSeq(Rest(s), FirstPos(Rest(s), ">") + 1, Len(Rest(s)))

HasPlus(s) == Positions(LeftOfGt(s), "+") # {}

SrcPosOf(s) == SubSeq(LeftOfGt(s), 1, FirstPos(LeftOfGt(s), "+") - 1)

SizeOf(s) == SubSeq(LeftOfGt(s), FirstPos(LeftOfGt(s), "+") + 1, Len(LeftOfGt(s)))

\* The error a missing marker asks for, "" when all three are there.
MarkerError(s) ==
    IF ~HasPrefix(s) THEN ErrPrefix
    ELSE IF ~HasGt(s) THEN ErrSrcDst
    ELSE IF ~HasPlus(s) THEN ErrSrcSize
    ELSE ""

\* The n-th comma of part: 0 for n = 0, past the end when there is none.
NthComma(part, n) ==
    LET commas == Positions(part, ",")
    IN  IF n = 0 THEN 0
        ELSE IF Cardinality(commas) < n THEN Len(part) + 1
        ELSE CHOOSE at \in commas : Cardinality({j \in commas : j <= at}) = n

FieldCount(part) == Cardinality(Positions(part, ",")) + 1

Field(part, n) == SubSeq(part, NthComma(part, n - 1) + 1, NthComma(part, n) - 1)

Unsigned(tok) == IF tok # << >> /\ tok[1] = "+" THEN Tail(tok) ELSE tok

\* A base-10 numeral: digits, after an optional '+'.
NumericToken(tok) ==
    /\ Unsigned(tok) # << >>
    /\ \A at \in 1..Len(Unsigned(tok)) : IsDigit(Unsigned(tok)[at])

\* A numeral of at most nine digits is below 2^32.
SmallNumeral(tok) == NumericToken(tok) /\ Len(Unsigned(tok)) <= 9

RECURSIVE Pow10(_)
Pow10(n) == IF n = 0 THEN 1 ELSE 10 * Pow10(n - 1)

RECURSIVE PositionalSum(_, _)
PositionalSum(ds, at) ==
    IF at > Len(ds) THEN 0
    ELSE DigitVal(ds[at]) * Pow10(Len(ds) - at) + PositionalSum(ds, at + 1)

NumeralValue(tok) == PositionalSum(Unsigned(tok), 1)

PartsOf(s) == <<SrcPosOf(s), SizeOf(s), DstOf(s)>>

\* One of the six components is missing or is no numeral.
BadComponent(s) ==
    \E n \in 1..3 :
        \/ FieldCount(PartsOf(s)[n]) < 2
        \/ ~NumericToken(Field(PartsOf(s)[n], 1))
        \/ ~NumericToken(Field(PartsOf(s)[n], 2))

\* An entry in the format, with six numerals that fit 32 bits.
CleanEntry(e) ==
    /\ e.t = "str"
    /\ MarkerError(e.s) = ""
    /\ \A n \in 1..3 : /\ FieldCount(PartsOf(e.s)[n]) >= 2
                      /\ SmallNumeral(Field(PartsOf(e.s)[n], 1))
                      /\ SmallNumeral(Field(PartsOf(e.s)[n], 2))

\* (src_x, src_y, w, h, dst_x, dst_y) as written in the entry.
Reading(s) ==
    << NumeralValue(Field(SrcPosOf(s), 1)), NumeralValue(Field(SrcPosOf(s), 2)),
       NumeralValue(Field(SizeOf(s), 1)), NumeralValue(Field(SizeOf(s), 2)),
       NumeralValue(Field(DstOf(s), 1)), NumeralValue(Field(DstOf(s), 2)) >>

\* The document has a first view with u64 width and height and a coords array.
ReachesLoop(doc) ==
    /\ doc.valid
    /\ doc.views.t = "array"
    /\ doc.views.elems # << >>
    /\ doc.views.elems[1].t = "object"
    /\ doc.views.elems[1].width.t = "u64"
    /\ doc.views.elems[1].height.t = "u64"
    /\ doc.views.elems[1].coords.t = "array"

View1 == json_str.views.elems[1]

Entries == View1.coords.elems

\* C3: a coords entry without the 'i:' prefix, without '>', or without '+'
\* left of the first '>' makes parse_json fail, never succeed without the
\* entry; the first such entry after well-formed ones decides the error, and
\* the three errors differ.
C3_ParseStrictness ==
    /\ ErrPrefix # ErrSrcDst /\ ErrPrefix # ErrSrcSize /\ ErrSrcDst # ErrSrcSize
    /\ (ppc = "done" /\ ReachesLoop(json_str)) =>
         \A k \in 1..Len(Entries) :
            (Entries[k].t = "str" /\ MarkerError(Entries[k].s) # "") =>
               /\ parsed.kind # "Ok"
               /\ (\A j \in 1..(k - 1) : CleanEntry(Entries[j]))
                    => parsed = Err(MarkerError(Entries[k].s))

\* The second entry has its only '+' right of the '>' or none at all.
C3_Witness ==
    /\ ppc = "done" /\ ReachesLoop(json_str) /\ Len(Entries) = 2
    /\ CleanEntry(Entries[1])
    /\ Entries[2].t = "str" /\ MarkerError(Entries[2].s) = ErrSrcSize
    /\ parsed = Err(ErrSrcSize)

\* C4: an entry with all three markers and a missing or non-numeric component
\* makes parse_json return Err: no panic, no Ok.
C4_BadComponentIsErr ==
    (ppc = "done" /\ ReachesLoop(json_str)) =>
        \A k \in 1..Len(Entries) :
            (/\ Entries[k].t = "str"
             /\ MarkerError(Entries[k].s) = ""
             /\ BadComponent(Entries[k].s)
             /\ \A j \in 1..(k - 1) : CleanEntry(Entries[j]))
            => parsed.kind = "Err"

\* C8: on success there are as many placements as coords entries, and the
\* k-th placement is the six numbers written in the k-th entry.
C8_PlacementsInOrder ==
    (ppc = "done" /\ parsed.kind = "Ok") =>
        /\ ReachesLoop(json_str)
        /\ Len(parsed.val.coords) = Len(Entries)
        /\ \A k \in 1..Len(Entries) :
              /\ Entries[k].t = "str"
              /\ MarkerError(Entries[k].s) = ""
              /\ ~BadComponent(Entries[k].s)
              /\ parsed.val.coords[k] = Reading(Entries[k].s)

\* Two entries with different placements.
C8_Witness ==
    /\ ppc = "done" /\ parsed.kind = "Ok" /\ ReachesLoop(json_str)
    /\ Len(Entries) = 2
    /\ parsed.val.coords[1] # parsed.val.coords[2]
    /\ parsed.val.coords[1][1] # parsed.val.coords[1][5]

\* C9: on success the canvas width and height are the manifest's numbers,
\* so a number that does not fit 32 bits is not a success.
C9_CanvasEqualsManifest ==
    (ppc = "done" /\ parsed.kind = "Ok") =>
        /\ View1.width.hi = 0 /\ parsed.val.width = View1.width.lo
        /\ View1.height.hi = 0 /\ parsed.val.height = View1.height.lo

(***************************************************************************)
(* main's pipeline, read off the log of requests and answers.              *)
(***************************************************************************)
Is404(a) == a.kind = "status" /\ a.status = 404

\* A download or a manifest parse that failed.
Failure(r) ==
    \/ r.answer.kind \in {"send_err", "bytes_err", "decode_err", "text_err"}
    \/ r.answer.kind = "status" /\ r.answer.status \notin {200, 404}
    \/ r.answer.kind = "text" /\ parse_json(r.answer.body).kind # "Ok"

\* What the server sent for page k: requests 2k-1 and 2k of the log.
PageImage(k) == log[2 * k - 1].answer.body

PageManifest(k) == log[2 * k].answer.body

\* C10: pages are requested in the order 1, 2, 3, ..., nothing is requested
\* after an image request answered 404; between iterations and when
\* descrambling starts there are as many images as manifests; k.png is the
\* descramble of page k's image with page k's manifest; and after a failed
\* download or parse no file is saved.
C10_Pipeline ==
    /\ \A n \in 1..Len(log) :
          /\ log[n].what = (IF n % 2 = 1 THEN "jpg" ELSE "json")
          /\ log[n].page = (n + 1) \div 2
          /\ Is404(log[n].answer) => n = Len(log)
    /\ mpc \in {"fetch_img", "descramble"} => Len(imgs) = Len(viewsVec)
    /\ mpc = "fetch_img" => Len(imgs) = i - 1
    /\ Len(files) <= Len(imgs)
    /\ mpc = "done" => Len(files) = Len(imgs) /\ Len(log) = 2 * Len(imgs) + 1
    /\ \A k \in 1..Len(files) :
          /\ 2 * k <= Len(log)
          /\ log[2 * k - 1].answer.kind = "image"
          /\ log[2 * k].answer.kind = "text"
          /\ parse_json(PageManifest(k)).kind = "Ok"
          /\ files[k] = descramble(PageImage(k), parse_json(PageManifest(k)).val)
    /\ (\E n \in 1..Len(log) : Failure(log[n])) => files = << >> /\ mpc = "exited"

\* Two pages with different images and manifests, both saved.
C10_Witness ==
    /\ mpc = "done" /\ Len(files) = 2
    /\ PageImage(1) # PageImage(2)
    /\ PageManifest(1) # PageManifest(2)
    /\ files[1] # files[2]
    /\ files[1] # PageImage(1)

====
